---- MODULE Spec2Model ----
(***************************************************************************)
(* A model of text2tex's LatexTranspiler (src/transpiler.py).              *)
(*                                                                         *)
(* Text.  A Python str is modelled as a sequence of characters; a          *)
(* character is a one-character TLA+ string ("a", "\t", "\\"), and a       *)
(* non-ASCII code point is written by its code point ("U+2264" is the      *)
(* less-or-equal sign).  Text that comes from the input, and everything    *)
(* sanitize_text, transpile_math and process_inline_math make of it, is    *)
(* kept character by character.  The fixed directives that transpile and   *)
(* generate_table_block write as string literals ("\\begin{document}",     *)
(* "\\toprule", the " & " between table cells) are kept as one element     *)
(* each: they are never read back by the code.                             *)
(***************************************************************************)
EXTENDS Integers, Sequences, FiniteSets, TLC

(***************************************************************************)
(* Character classes, as Python's str methods and the re module see them.  *)
(***************************************************************************)
LowerLetters ==
    { "a", "b", "c", "d", "e", "f", "g", "h", "i", "j", "k", "l", "m",
      "n", "o", "p", "q", "r", "s", "t", "u", "v", "w", "x", "y", "z" }

UpperLetters ==
    { "A", "B", "C", "D", "E", "F", "G", "H", "I", "J", "K", "L", "M",
      "N", "O", "P", "Q", "R", "S", "T", "U", "V", "W", "X", "Y", "Z" }

\* [a-zA-Z]
AsciiLetters == LowerLetters \cup UpperLetters

\* \d and str.isdigit, on the characters of the model
Digits == { "0", "1", "2", "3", "4", "5", "6", "7", "8", "9" }

\* \s and the characters str.strip() removes
Whitespace == { " ", "\t", "\n", "\r" }

\* the non-ASCII letters among the characters of the model (str.isalpha, \w)
UnicodeLetters ==
    { "U+03B1", "U+03B2", "U+03B3", "U+03B4", "U+03F5", "U+03B5", "U+03B6", "U+03B7", "U+03B8", "U+03B9", "U+03BA", "U+03BB", "U+03BC", "U+03BD", "U+03BE", "U+03C0", "U+03C1", "U+03C3", "U+03C4", "U+03C5", "U+03C6", "U+03C7", "U+03C8", "U+03C9", "U+0393", "U+0394", "U+0398", "U+039B", "U+039E", "U+03A0", "U+03A3", "U+03A6", "U+03A8", "U+03A9" }


\* str.isalpha of one character
IsAlpha(c) == c \in AsciiLetters \cup UnicodeLetters

\* \w of the re module (str patterns are Unicode-aware)
IsWordChar(c) == c \in AsciiLetters \cup Digits \cup UnicodeLetters \cup {"_"}

\* str.lower of one character
LowerChar(c) ==
    CASE c = "A" -> "a" [] c = "B" -> "b" [] c = "C" -> "c" [] c = "D" -> "d"
      [] c = "E" -> "e" [] c = "F" -> "f" [] c = "G" -> "g" [] c = "H" -> "h"
      [] c = "I" -> "i" [] c = "J" -> "j" [] c = "K" -> "k" [] c = "L" -> "l"
      [] c = "M" -> "m" [] c = "N" -> "n" [] c = "O" -> "o" [] c = "P" -> "p"
      [] c = "Q" -> "q" [] c = "R" -> "r" [] c = "S" -> "s" [] c = "T" -> "t"
      [] c = "U" -> "u" [] c = "V" -> "v" [] c = "W" -> "w" [] c = "X" -> "x"
      [] c = "Y" -> "y" [] c = "Z" -> "z"
      [] c = "U+0393" -> "U+03B3" [] c = "U+0394" -> "U+03B4"
      [] c = "U+0398" -> "U+03B8" [] c = "U+039B" -> "U+03BB"
      [] c = "U+039E" -> "U+03BE" [] c = "U+03A0" -> "U+03C0"
      [] c = "U+03A3" -> "U+03C3" [] c = "U+03A6" -> "U+03C6"
      [] c = "U+03A8" -> "U+03C8" [] c = "U+03A9" -> "U+03C9"
      [] OTHER -> c

(***************************************************************************)
(* Python's str operations on sequences of characters.                     *)
(***************************************************************************)
\* Body of value, with value computed once: Python evaluates an argument
\* or the right side of an assignment once, before it is used
With(value, Body(_)) == CHOOSE r \in { Body(v) : v \in { value } } : TRUE

\* str.lower
Lower(text) == With(text, LAMBDA t : [i \in 1..Len(t) |-> LowerChar(t[i])])

\* text[p-1:p-1+len(pat)] == pat, p counted from 1
MatchAt(text, pat, p) ==
    /\ p >= 1
    /\ p + Len(pat) - 1 <= Len(text)
    /\ \A k \in 1..Len(pat) : text[p + k - 1] = pat[k]

\* str.startswith
StartsWith(text, pat) == MatchAt(text, pat, 1)

\* pat in text
Contains(text, pat) == \E p \in 1..(Len(text) + 1) : MatchAt(text, pat, p)

\* text[a-1:b], both ends counted from 1 and inclusive
Slice(text, a, b) == IF b >= a THEN SubSeq(text, a, b) ELSE <<>>

\* text[p-1:]
From(text, p) == Slice(text, p, Len(text))

RECURSIVE ReplaceFrom(_, _, _, _)
ReplaceFrom(text, old, new, p) ==
    IF p > Len(text) THEN <<>>
    ELSE IF MatchAt(text, old, p)
         THEN new \o ReplaceFrom(text, old, new, p + Len(old))
         ELSE <<text[p]>> \o ReplaceFrom(text, old, new, p + 1)

\* str.replace(old, new), old not empty
Replace(text, old, new) == With(text, LAMBDA t : ReplaceFrom(t, old, new, 1))

\* the first position at which pat occurs in text, 0 when there is none
Find(text, pat) ==
    IF Contains(text, pat)
    THEN CHOOSE p \in 1..(Len(text) + 1) :
            /\ MatchAt(text, pat, p)
            /\ \A q \in 1..(p - 1) : ~MatchAt(text, pat, q)
    ELSE 0

\* str.replace(old, new, 1)
ReplaceFirst(text, old, new) ==
    With(Find(text, old), LAMBDA p :
        IF p = 0 THEN text
        ELSE Slice(text, 1, p - 1) \o new \o From(text, p + Len(old)))

\* the number of leading characters of text that are in chars
RECURSIVE LeadingRun(_, _, _)
LeadingRun(text, chars, p) ==
    IF p <= Len(text) /\ text[p] \in chars
    THEN 1 + LeadingRun(text, chars, p + 1)
    ELSE 0

\* the number of trailing characters of text that are in chars
RECURSIVE TrailingRun(_, _, _)
TrailingRun(text, chars, p) ==
    IF p >= 1 /\ text[p] \in chars
    THEN 1 + TrailingRun(text, chars, p - 1)
    ELSE 0

\* str.lstrip(chars), str.rstrip(chars), str.strip(chars)
LStripChars(text, chars) ==
    With(text, LAMBDA t : From(t, LeadingRun(t, chars, 1) + 1))
RStripChars(text, chars) ==
    With(text, LAMBDA t : Slice(t, 1, Len(t) - TrailingRun(t, chars, Len(t))))
StripChars(text, chars) ==
    With(LStripChars(text, chars), LAMBDA t : RStripChars(t, chars))

\* str.lstrip(), str.rstrip(), str.strip()
LStrip(text) == LStripChars(text, Whitespace)
RStrip(text) == RStripChars(text, Whitespace)
Strip(text) == StripChars(text, Whitespace)

\* str.split(sep) for a one-character sep: never an empty list, "" gives [""]
\* the pieces of text from position p on; the current piece began at start
RECURSIVE SplitFrom(_, _, _, _)
SplitFrom(text, sep, p, start) ==
    IF p > Len(text) THEN << Slice(text, start, Len(text)) >>
    ELSE IF text[p] = sep
         THEN << Slice(text, start, p - 1) >> \o SplitFrom(text, sep, p + 1, p + 1)
         ELSE SplitFrom(text, sep, p + 1, start)

Split(text, sep) == With(text, LAMBDA t : SplitFrom(t, sep, 1, 1))

RECURSIVE JoinFrom(_, _, _)
JoinFrom(parts, sep, k) ==
    IF k > Len(parts) THEN <<>>
    ELSE IF k = Len(parts) THEN parts[k]
    ELSE parts[k] \o sep \o JoinFrom(parts, sep, k + 1)

\* sep.join(parts)
Join(parts, sep) == With(parts, LAMBDA ps : JoinFrom(ps, sep, 1))

\* str.count(c) for one character
Count(text, c) == Cardinality({ i \in 1..Len(text) : text[i] = c })

\* \b at the position before character p (p = Len(text) + 1: the end)
IsWordAt(text, p) == p >= 1 /\ p <= Len(text) /\ IsWordChar(text[p])
WordBoundary(text, p) == IsWordAt(text, p - 1) # IsWordAt(text, p)

(***************************************************************************)
(* The Lexicon Store's fixed tables, in the order of the dict literals     *)
(* (the order in which the code applies them).                             *)
(***************************************************************************)
text_special_chars ==
    << <<"&", <<"\\", "&">>>>,
       <<"%", <<"\\", "%">>>>,
       <<"$", <<"\\", "$">>>>,
       <<"#", <<"\\", "#">>>>,
       <<"_", <<"\\", "_">>>>,
       <<"{", <<"\\", "{">>>>,
       <<"}", <<"\\", "}">>>>,
       <<"~", <<"\\", "t", "e", "x", "t", "a", "s", "c", "i", "i", "t", "i", "l", "d", "e", "{", "}">>>>,
       <<"^", <<"\\", "^", "{", "}">>>> >>

math_map ==
    << <<<<"U+03B1">>, <<"\\", "a", "l", "p", "h", "a">>>>,
       <<<<"U+03B2">>, <<"\\", "b", "e", "t", "a">>>>,
       <<<<"U+03B3">>, <<"\\", "g", "a", "m", "m", "a">>>>,
       <<<<"U+03B4">>, <<"\\", "d", "e", "l", "t", "a">>>>,
       <<<<"U+03F5">>, <<"\\", "e", "p", "s", "i", "l", "o", "n">>>>,
       <<<<"U+03B5">>, <<"\\", "v", "a", "r", "e", "p", "s", "i", "l", "o", "n">>>>,
       <<<<"U+03B6">>, <<"\\", "z", "e", "t", "a">>>>,
       <<<<"U+03B7">>, <<"\\", "e", "t", "a">>>>,
       <<<<"U+03B8">>, <<"\\", "t", "h", "e", "t", "a">>>>,
       <<<<"U+03B9">>, <<"\\", "i", "o", "t", "a">>>>,
       <<<<"U+03BA">>, <<"\\", "k", "a", "p", "p", "a">>>>,
       <<<<"U+03BB">>, <<"\\", "l", "a", "m", "b", "d", "a">>>>,
       <<<<"U+03BC">>, <<"\\", "m", "u">>>>,
       <<<<"U+03BD">>, <<"\\", "n", "u">>>>,
       <<<<"U+03BE">>, <<"\\", "x", "i">>>>,
       <<<<"U+03C0">>, <<"\\", "p", "i">>>>,
       <<<<"U+03C1">>, <<"\\", "r", "h", "o">>>>,
       <<<<"U+03C3">>, <<"\\", "s", "i", "g", "m", "a">>>>,
       <<<<"U+03C4">>, <<"\\", "t", "a", "u">>>>,
       <<<<"U+03C5">>, <<"\\", "u", "p", "s", "i", "l", "o", "n">>>>,
       <<<<"U+03C6">>, <<"\\", "p", "h", "i">>>>,
       <<<<"U+03C7">>, <<"\\", "c", "h", "i">>>>,
       <<<<"U+03C8">>, <<"\\", "p", "s", "i">>>>,
       <<<<"U+03C9">>, <<"\\", "o", "m", "e", "g", "a">>>>,
       <<<<"U+0393">>, <<"\\", "G", "a", "m", "m", "a">>>>,
       <<<<"U+0394">>, <<"\\", "D", "e", "l", "t", "a">>>>,
       <<<<"U+0398">>, <<"\\", "T", "h", "e", "t", "a">>>>,
       <<<<"U+039B">>, <<"\\", "L", "a", "m", "b", "d", "a">>>>,
       <<<<"U+039E">>, <<"\\", "X", "i">>>>,
       <<<<"U+03A0">>, <<"\\", "P", "i">>>>,
       <<<<"U+03A3">>, <<"\\", "S", "i", "g", "m", "a">>>>,
       <<<<"U+03A6">>, <<"\\", "P", "h", "i">>>>,
       <<<<"U+03A8">>, <<"\\", "P", "s", "i">>>>,
       <<<<"U+03A9">>, <<"\\", "O", "m", "e", "g", "a">>>>,
       <<<<"U+2295">>, <<"\\", "o", "p", "l", "u", "s">>>>,
       <<<<"U+2297">>, <<"\\", "o", "t", "i", "m", "e", "s">>>>,
       <<<<"U+2296">>, <<"\\", "o", "m", "i", "n", "u", "s">>>>,
       <<<<"U+2299">>, <<"\\", "o", "d", "o", "t">>>>,
       <<<<"U+00D7">>, <<"\\", "t", "i", "m", "e", "s">>>>,
       <<<<"U+00B7">>, <<"\\", "c", "d", "o", "t">>>>,
       <<<<"U+00F7">>, <<"\\", "d", "i", "v">>>>,
       <<<<"U+00B1">>, <<"\\", "p", "m">>>>,
       <<<<"U+2264">>, <<"\\", "l", "e">>>>,
       <<<<"U+2265">>, <<"\\", "g", "e">>>>,
       <<<<"U+2260">>, <<"\\", "n", "e", "q">>>>,
       <<<<"U+2248">>, <<"\\", "a", "p", "p", "r", "o", "x">>>>,
       <<<<"U+2261">>, <<"\\", "e", "q", "u", "i", "v">>>>,
       <<<<"U+2192">>, <<"\\", "t", "o">>>>,
       <<<<"U+2190">>, <<"\\", "g", "e", "t", "s">>>>,
       <<<<"U+21D2">>, <<"\\", "R", "i", "g", "h", "t", "a", "r", "r", "o", "w">>>>,
       <<<<"U+21D4">>, <<"\\", "L", "e", "f", "t", "r", "i", "g", "h", "t", "a", "r", "r", "o", "w">>>>,
       <<<<"U+21A6">>, <<"\\", "m", "a", "p", "s", "t", "o">>>>,
       <<<<"U+2200">>, <<"\\", "f", "o", "r", "a", "l", "l">>>>,
       <<<<"U+2203">>, <<"\\", "e", "x", "i", "s", "t", "s">>>>,
       <<<<"U+00AC">>, <<"\\", "n", "e", "g">>>>,
       <<<<"U+2227">>, <<"\\", "l", "a", "n", "d">>>>,
       <<<<"U+2228">>, <<"\\", "l", "o", "r">>>>,
       <<<<"U+2208">>, <<"\\", "i", "n">>>>,
       <<<<"U+2209">>, <<"\\", "n", "o", "t", "i", "n">>>>,
       <<<<"U+2282">>, <<"\\", "s", "u", "b", "s", "e", "t">>>>,
       <<<<"U+2283">>, <<"\\", "s", "u", "p", "s", "e", "t">>>>,
       <<<<"U+2286">>, <<"\\", "s", "u", "b", "s", "e", "t", "e", "q">>>>,
       <<<<"U+2287">>, <<"\\", "s", "u", "p", "s", "e", "t", "e", "q">>>>,
       <<<<"U+222A">>, <<"\\", "c", "u", "p">>>>,
       <<<<"U+2229">>, <<"\\", "c", "a", "p">>>>,
       <<<<"U+2205">>, <<"\\", "e", "m", "p", "t", "y", "s", "e", "t">>>>,
       <<<<"U+221E">>, <<"\\", "i", "n", "f", "t", "y">>>>,
       <<<<"U+2202">>, <<"\\", "p", "a", "r", "t", "i", "a", "l">>>>,
       <<<<"U+2207">>, <<"\\", "n", "a", "b", "l", "a">>>>,
       <<<<"U+2211">>, <<"\\", "s", "u", "m">>>>,
       <<<<"U+220F">>, <<"\\", "p", "r", "o", "d">>>>,
       <<<<"U+222B">>, <<"\\", "i", "n", "t">>>>,
       <<<<".", ".", ".">>, <<"\\", "l", "d", "o", "t", "s">>>>,
       <<<<"U+25E6">>, <<"\\", "c", "i", "r", "c">>>>,
       <<<<"*">>, <<"\\", "t", "i", "m", "e", "s">>>>,
       <<<<"{">>, <<"\\", "{">>>>,
       <<<<"}">>, <<"\\", "}">>>> >>

\* the seed of english_anchors
BaseAnchors ==
    { <<"a", "m">>, <<"a", "n">>, <<"a", "n", "d">>, <<"a", "r", "e">>,
      <<"a", "s">>, <<"a", "s", "s", "u", "m", "e">>, <<"a", "t">>, <<"b", "e">>,
      <<"b", "y">>, <<"c", "a", "n">>, <<"c", "h", "e", "c", "k">>, <<"d", "e", "f", "i", "n", "e">>,
      <<"d", "o">>, <<"f", "o", "r">>, <<"f", "r", "o", "m">>, <<"f", "u", "n", "c", "t", "i", "o", "n">>,
      <<"f", "u", "n", "d", "a", "m", "e", "n", "t", "a", "l">>, <<"g", "i", "v", "e", "n">>, <<"g", "o">>, <<"h", "a", "s">>,
      <<"h", "a", "v", "e">>, <<"h", "e">>, <<"h", "e", "n", "c", "e">>, <<"i", "f">>,
      <<"i", "n">>, <<"i", "n", "p", "u", "t">>, <<"i", "p">>, <<"i", "s">>,
      <<"i", "t">>, <<"l", "e", "t">>, <<"m", "e">>, <<"m", "e", "t", "h", "o", "d">>,
      <<"m", "y">>, <<"n", "o">>, <<"n", "o", "t", "e">>, <<"o", "f">>,
      <<"o", "k">>, <<"o", "n">>, <<"o", "r">>, <<"o", "u", "r">>,
      <<"p", "r", "o", "v", "e">>, <<"p", "r", "o", "v", "e", "r">>, <<"r", "a", "n", "d", "o", "m">>, <<"r", "e", "s", "p", "o", "n", "s", "e">>,
      <<"r", "e", "s", "u", "l", "t">>, <<"s", "e", "c", "u", "r", "i", "t", "y">>, <<"s", "e", "n", "d">>, <<"s", "e", "n", "d", "s">>,
      <<"s", "h", "o", "w">>, <<"s", "i", "n", "g", "l", "e">>, <<"s", "o">>, <<"s", "u", "c", "h">>,
      <<"s", "u", "p", "p", "o", "s", "e">>, <<"t", "h", "a", "t">>, <<"t", "h", "e">>, <<"t", "h", "e", "n">>,
      <<"t", "h", "e", "r", "e", "f", "o", "r", "e">>, <<"t", "h", "i", "s">>, <<"t", "h", "u", "s">>, <<"t", "o">>,
      <<"u", "p">>, <<"u", "s">>, <<"u", "s", "i", "n", "g">>, <<"v", "a", "l", "i", "d">>,
      <<"w", "e">>, <<"w", "h", "e", "r", "e">>, <<"w", "i", "t", "h">> }

(***************************************************************************)
(* The state.  The first four variables are the transpiler object's        *)
(* settings (the Lexicon Store); the others are one call of transpile:     *)
(* its argument, its locals, and its return value.                         *)
(***************************************************************************)
VARIABLES
    section_id,         \* self.section_id
    subsection_id,      \* self.subsection_id
    include_title,      \* self.include_title
    english_anchors,    \* self.english_anchors
    pc,                 \* "idle", or where the running call is
    raw_input,          \* transpile's argument
    lines,              \* the body lines (the title popped)
    line_no,            \* how many body lines the for loop has taken
    table_buffer,       \* table_buffer
    current_list_type,  \* current_list_type, "none" for None
    latex_output,       \* latex_output, one text per appended element
    result,             \* what the call returned
    prev_result,        \* what the call before returned, on the same input
    calls,              \* the update_settings arguments so far
    arg,                \* the argument of a pure function applied on its own
    ret                 \* what it returned

vars ==
    << section_id, subsection_id, include_title, english_anchors, pc,
       raw_input, lines, line_no, table_buffer, current_list_type,
       latex_output, result, prev_result, calls, arg, ret >>

lexicon == << section_id, subsection_id, include_title, english_anchors >>

(***************************************************************************)
(* sanitize_text                                                           *)
(***************************************************************************)
RECURSIVE SanitizeFrom(_, _)
SanitizeFrom(text, k) ==
    IF k > Len(text_special_chars) THEN text
    ELSE With(Replace(text, <<text_special_chars[k][1]>>, text_special_chars[k][2]),
              LAMBDA t : SanitizeFrom(t, k + 1))

sanitize_text(text) == SanitizeFrom(text, 1)

(***************************************************************************)
(* transpile_math                                                          *)
(***************************************************************************)
\* text[p-1] exists and is in chars
CharAtIn(text, p, chars) == p >= 1 /\ p <= Len(text) /\ text[p] \in chars

\* the characters step 0 escapes, in the code's order
PreEscaped == << "%", "#", "$", "&" >>

RECURSIVE PreSanitizeFrom(_, _)
PreSanitizeFrom(text, k) ==
    IF k > Len(PreEscaped) THEN text
    ELSE With(Replace(text, <<PreEscaped[k]>>, <<"\\", PreEscaped[k]>>),
              LAMBDA t : PreSanitizeFrom(t, k + 1))

\* a faulty step 0 that escapes nothing
PreSanitizeNothing(text) == text

\* step 0
PreSanitize(text) == PreSanitizeFrom(text, 1)

\* re.sub(r'\bNAME(?=[\[\(])', r'\\NAME', text)
RECURSIVE FuncSubFrom(_, _, _)
FuncSubFrom(text, name, p) ==
    IF p > Len(text) THEN <<>>
    ELSE IF /\ WordBoundary(text, p)
            /\ MatchAt(text, name, p)
            /\ CharAtIn(text, p + Len(name), {"[", "("})
         THEN <<"\\">> \o name \o FuncSubFrom(text, name, p + Len(name))
         ELSE <<text[p]>> \o FuncSubFrom(text, name, p + 1)

\* the function names of step 1, in the code's order
FunctionNames ==
    << <<"P", "r">>, <<"l", "o", "g">>, <<"s", "i", "n">>,
       <<"c", "o", "s">>, <<"l", "i", "m">> >>

RECURSIVE WrapFunctionsFrom(_, _)
WrapFunctionsFrom(text, k) ==
    IF k > Len(FunctionNames) THEN text
    ELSE With(FuncSubFrom(text, FunctionNames[k], 1),
              LAMBDA t : WrapFunctionsFrom(t, k + 1))

\* step 1
WrapFunctions(text) == With(text, LAMBDA t : WrapFunctionsFrom(t, 1))

\* re.sub(r'\b(Enc|Dec)k(?=\()', r'\\text{\1}_k', text)
RECURSIVE KeyedSubFrom(_, _)
KeyedSubFrom(text, p) ==
    IF p > Len(text) THEN <<>>
    ELSE IF /\ WordBoundary(text, p)
            /\ \/ MatchAt(text, <<"E", "n", "c", "k">>, p)
               \/ MatchAt(text, <<"D", "e", "c", "k">>, p)
            /\ CharAtIn(text, p + 4, {"("})
         THEN <<"\\", "t", "e", "x", "t", "{">> \o Slice(text, p, p + 2)
                \o <<"}", "_", "k">> \o KeyedSubFrom(text, p + 4)
         ELSE <<text[p]>> \o KeyedSubFrom(text, p + 1)

\* the first math_map entry from the k-th on whose key occurs in text, or 0
NextSymbol(text, k) ==
    LET here == { j \in k..Len(math_map) : Contains(text, math_map[j][1]) }
    IN  IF here = {} THEN 0
        ELSE CHOOSE j \in here : \A m \in here : j <= m

\* step 2: every math_map entry, in dict order, padded with spaces (an entry
\* whose key does not occur replaces nothing, and is passed over)
RECURSIVE MapSymbolsFrom(_, _)
MapSymbolsFrom(text, k) ==
    With(NextSymbol(text, k), LAMBDA j :
        IF j = 0 THEN text
        ELSE With(Replace(text, math_map[j][1], <<" ">> \o math_map[j][2] \o <<" ">>),
                  LAMBDA t : MapSymbolsFrom(t, j + 1)))

WordChars == AsciiLetters \cup Digits \cup UnicodeLetters \cup {"_"}

\* the root sign
Sqrt == "U+221A"

\* re.sub(r'ROOT(\w+)', r'\\sqrt{\1}', text)
RECURSIVE SqrtWordFrom(_, _)
SqrtWordFrom(text, p) ==
    IF p > Len(text) THEN <<>>
    ELSE LET n == LeadingRun(text, WordChars, p + 1)
         IN  IF text[p] = Sqrt /\ n >= 1
             THEN <<"\\", "s", "q", "r", "t", "{">> \o Slice(text, p + 1, p + n)
                    \o <<"}">> \o SqrtWordFrom(text, p + 1 + n)
             ELSE <<text[p]>> \o SqrtWordFrom(text, p + 1)

\* step 3
SquareRoots(text) ==
    IF Contains(text, <<Sqrt>>)
    THEN With(SqrtWordFrom(text, 1),
              LAMBDA t : Replace(t, <<Sqrt>>, <<"\\", "s", "q", "r", "t">>))
    ELSE text

\* (?<!\\) at the position before character p
NotAfterBackslash(text, p) == ~CharAtIn(text, p - 1, {"\\"})

\* re.sub(r'(?<!\\)\b([a-zA-Z])(\d)\b', r'\1_\2', text)
RECURSIVE DigitSubFrom(_, _)
DigitSubFrom(text, p) ==
    IF p > Len(text) THEN <<>>
    ELSE IF /\ NotAfterBackslash(text, p)
            /\ WordBoundary(text, p)
            /\ CharAtIn(text, p, AsciiLetters)
            /\ CharAtIn(text, p + 1, Digits)
            /\ WordBoundary(text, p + 2)
         THEN <<text[p], "_", text[p + 1]>> \o DigitSubFrom(text, p + 2)
         ELSE <<text[p]>> \o DigitSubFrom(text, p + 1)

\* two_letter_sub, the callback
two_letter_sub(word) ==
    IF word \in english_anchors \/ Contains(word, <<"P", "r">>)
    THEN word
    ELSE <<word[1], "_", word[2]>>

\* re.sub(r'(?<!\\)\b([a-zA-Z])([a-zA-Z])\b', two_letter_sub, text)
RECURSIVE LetterSubFrom(_, _)
LetterSubFrom(text, p) ==
    IF p > Len(text) THEN <<>>
    ELSE IF /\ NotAfterBackslash(text, p)
            /\ WordBoundary(text, p)
            /\ CharAtIn(text, p, AsciiLetters)
            /\ CharAtIn(text, p + 1, AsciiLetters)
            /\ WordBoundary(text, p + 2)
         THEN two_letter_sub(Slice(text, p, p + 1)) \o LetterSubFrom(text, p + 2)
         ELSE <<text[p]>> \o LetterSubFrom(text, p + 1)

\* re.sub(r'\s+', ' ', text)
RECURSIVE CollapseFrom(_, _)
CollapseFrom(text, p) ==
    IF p > Len(text) THEN <<>>
    ELSE IF text[p] \in Whitespace
         THEN <<" ">> \o CollapseFrom(text, p + LeadingRun(text, Whitespace, p))
         ELSE <<text[p]>> \o CollapseFrom(text, p + 1)

transpile_math(text) ==
    With(PreSanitize(text),     LAMBDA t0 :
    With(WrapFunctions(t0),     LAMBDA t1 :
    With(KeyedSubFrom(t1, 1),   LAMBDA t2 :
    With(MapSymbolsFrom(t2, 1), LAMBDA t3 :
    With(SquareRoots(t3),       LAMBDA t4 :
    With(DigitSubFrom(t4, 1),   LAMBDA t5 :
    With(LetterSubFrom(t5, 1),  LAMBDA t6 :
    With(CollapseFrom(t6, 1),   LAMBDA t7 : Strip(t7)))))))))

(***************************************************************************)
(* is_math_token                                                           *)
(***************************************************************************)
\* the characters token.strip(".,;:?!") removes
TokenPunct == { ".", ",", ";", ":", "?", "!" }

\* re.search(r'\b[A-Z][a-zA-Z0-9]*\(', clean)
IsFunctionCall(clean) ==
    \E p \in 1..Len(clean) :
        /\ WordBoundary(clean, p)
        /\ clean[p] \in UpperLetters
        /\ CharAtIn(clean, p + 1 + LeadingRun(clean, AsciiLetters \cup Digits, p + 1), {"("})

\* the keys of math_map
MathMapKeys == { math_map[k][1] : k \in 1..Len(math_map) }

\* math_chars of is_math_token
MathChars ==
    MathMapKeys \cup
    { <<"=">>, <<"<">>, <<">">>, <<"+">>, <<"U+25E6">>, <<"U+00B7">>,
      <<"U+00B1">>, <<"^">>, <<"_">>, <<"|">>, <<"\\">>, <<"/">> }

\* str.isalpha: not empty and every character alphabetic
AllAlpha(text) == text # <<>> /\ \A i \in 1..Len(text) : IsAlpha(text[i])

is_math_token(token) ==
    With(StripChars(token, TokenPunct), LAMBDA clean :
        IF clean = <<>> THEN FALSE
        ELSE IF Lower(clean) \in english_anchors THEN FALSE
        ELSE IF IsFunctionCall(clean) THEN TRUE
        ELSE IF \E c \in MathChars : Contains(clean, c) THEN TRUE
        ELSE IF \E i \in 1..Len(clean) : clean[i] \in Digits THEN TRUE
        ELSE IF Len(clean) = 1 /\ AllAlpha(clean)
             THEN clean \notin { <<"a">>, <<"A">>, <<"I">> }
        ELSE IF Len(clean) = 2 /\ AllAlpha(clean) THEN TRUE
        ELSE IF Contains(clean, <<"(">>) /\ Contains(clean, <<")">>) THEN TRUE
        ELSE FALSE)

(***************************************************************************)
(* process_inline_math                                                     *)
(***************************************************************************)
\* [.,;:?!()\[\]"\']
EdgePunct == { ".", ",", ";", ":", "?", "!", "(", ")", "[", "]", "\"", "'" }

\* step 1: prefix_match and suffix_match, as <<prefix, core, suffix>>
StripPunctuation(token) ==
    With(LeadingRun(token, EdgePunct, 1), LAMBDA n :
    With(From(token, n + 1), LAMBDA body :
    With(TrailingRun(body, EdgePunct, Len(body)), LAMBDA m :
        << Slice(token, 1, n),
           Slice(body, 1, Len(body) - m),
           From(body, Len(body) - m + 1) >>)))

\* step 2: one of the two while loops, for the bracket pair open, close
RECURSIVE BalanceLoop(_, _, _, _)
BalanceLoop(core, suffix, open, close) ==
    IF Count(core, open) > Count(core, close) /\ StartsWith(suffix, <<close>>)
    THEN BalanceLoop(Append(core, close), Tail(suffix), open, close)
    ELSE << core, suffix >>

\* step 2: both loops, as <<core, suffix>>
BalanceCheck(core, suffix) ==
    With(BalanceLoop(core, suffix, "(", ")"),
         LAMBDA round : BalanceLoop(round[1], round[2], "[", "]"))

\* the characters the look-ahead after 'a' / 'an' searches the next token for
LookaheadChars == { "=", "+", "U+2264", "U+2265", ">", "<", "U+2295", "U+2248" }

\* step 3: is_math of the i-th raw token, whose repaired core is core
TokenIsMath(raw_tokens, i, core) ==
    IF core \in { <<"a", "n">>, <<"a">> }
    THEN /\ i + 1 <= Len(raw_tokens)
         /\ With(StripChars(raw_tokens[i + 1], TokenPunct), LAMBDA next_token :
                \E k \in 1..Len(next_token) : next_token[k] \in LookaheadChars)
    ELSE is_math_token(core)

\* the loop body: what the i-th raw token appends to output_tokens
OutputToken(raw_tokens, i) ==
    With(StripPunctuation(raw_tokens[i]), LAMBDA parts :
    With(BalanceCheck(parts[2], parts[3]), LAMBDA fixed :
        IF TokenIsMath(raw_tokens, i, fixed[1])
        THEN sanitize_text(parts[1]) \o <<"$">> \o transpile_math(fixed[1])
                \o <<"$">> \o sanitize_text(fixed[2])
        ELSE sanitize_text(raw_tokens[i])))

process_inline_math(line) ==
    With(Split(line, " "), LAMBDA raw_tokens :
        Join([i \in 1..Len(raw_tokens) |-> OutputToken(raw_tokens, i)], <<" ">>))

(***************************************************************************)
(* format_list_content                                                     *)
(***************************************************************************)
\* the end offsets of the matches of \S+, in order
WordEnds(text) ==
    With({ p \in 1..Len(text) :
            /\ text[p] \notin Whitespace
            /\ (p = Len(text) \/ text[p + 1] \in Whitespace) },
         LAMBDA ends :
            [k \in 1..Cardinality(ends) |->
                CHOOSE p \in ends : Cardinality({ q \in ends : q < p }) = k - 1])

\* raw_content.find(':', 0, limit), counted from 1; 0 for -1
FindColon(text, limit) ==
    With({ p \in 1..limit : p <= Len(text) /\ text[p] = ":" }, LAMBDA at :
        IF at = {} THEN 0 ELSE CHOOSE p \in at : \A q \in at : p <= q)

\* lines 190-196: the bold label and what follows it
BoldLabel(prefix, suffix) ==
    With(process_inline_math(suffix), LAMBDA suffix_tex :
        IF suffix_tex # <<>> /\ suffix_tex[1] \in { ":", ";", ",", ".", "!", "?" }
        THEN <<"\\textbf{">> \o process_inline_math(prefix) \o <<"}">> \o suffix_tex
        ELSE <<"\\textbf{">> \o process_inline_math(prefix) \o <<"}", " ">> \o suffix_tex)

format_list_content(raw_content) ==
    With(WordEnds(raw_content), LAMBDA word_ends :
        IF word_ends = <<>> THEN process_inline_math(raw_content)
        ELSE
        With(FindColon(raw_content,
                       word_ends[IF Len(word_ends) < 5 THEN Len(word_ends) ELSE 5]),
             LAMBDA colon_pos :
                IF colon_pos = 0 THEN process_inline_math(raw_content)
                ELSE
                With(RStrip(Slice(raw_content, 1, colon_pos - 1)), LAMBDA prefix :
                    IF prefix = <<>> THEN process_inline_math(raw_content)
                    ELSE BoldLabel(prefix, LStrip(From(raw_content, colon_pos))))))

(***************************************************************************)
(* is_math_line                                                            *)
(***************************************************************************)
\* re.findall(r'\b[a-zA-Z]{2,}\b', text): the matches, left to right
RECURSIVE FindWordsFrom(_, _)
FindWordsFrom(text, p) ==
    IF p > Len(text) THEN <<>>
    ELSE LET n == LeadingRun(text, AsciiLetters, p)
         IN  IF WordBoundary(text, p) /\ n >= 2 /\ WordBoundary(text, p + n)
             THEN <<Slice(text, p, p + n - 1)>> \o FindWordsFrom(text, p + n)
             ELSE FindWordsFrom(text, p + 1)

\* a faulty english_count: one for every distinct anchor word matched
EnglishCountDistinct(words) ==
    With(words, LAMBDA ws :
        Cardinality({ ws[i] : i \in 1..Len(ws) } \cap english_anchors))

\* english_count: one for every match that is an anchor word
EnglishCount(words) ==
    With(words, LAMBDA ws :
        Cardinality({ i \in 1..Len(ws) : ws[i] \in english_anchors }))

\* strong_indicators of is_math_line
StrongIndicators ==
    MathMapKeys \cup
    { <<"=">>, <<"U+2264">>, <<"U+2265">>, <<"U+2260">>, <<"U+2248">>,
      <<"U+2192">>, <<"<">>, <<">">> }

is_math_line(line) ==
    With(Lower(line), LAMBDA lowered :
        IF EnglishCount(FindWordsFrom(lowered, 1)) >= 2 THEN FALSE
        ELSE IF \E c \in StrongIndicators : Contains(line, c) THEN TRUE
        ELSE FALSE)

(***************************************************************************)
(* detect_structure: <<structure, raw_content>>                            *)
(***************************************************************************)
\* how many characters (\.\d+)* takes at position p
RECURSIVE DottedGroups(_, _)
DottedGroups(text, p) ==
    LET d == LeadingRun(text, Digits, p + 1)
    IN  IF CharAtIn(text, p, {"."}) /\ d >= 1
        THEN 1 + d + DottedGroups(text, p + 1 + d)
        ELSE 0

\* re.match(r'^(\d+(?:\.\d+)+)\.?\s+(.*)', line): <<numbering, title>> of the
\* match, or <<>> when there is none
HeaderMatch(line) ==
    With(LeadingRun(line, Digits, 1), LAMBDA d :
    With(DottedGroups(line, d + 1), LAMBDA g :
    With(IF CharAtIn(line, d + g + 1, {"."}) THEN 1 ELSE 0, LAMBDA dot :
    With(LeadingRun(line, Whitespace, d + g + dot + 1), LAMBDA ws :
        IF d >= 1 /\ g >= 1 /\ ws >= 1
        THEN << Slice(line, 1, d + g), From(line, d + g + dot + ws + 1) >>
        ELSE <<>>))))

\* how many characters re.match(r'^\d+\.\s+', line) takes, 0 when it fails
EnumeratePrefix(line) ==
    With(LeadingRun(line, Digits, 1), LAMBDA d :
    With(LeadingRun(line, Whitespace, d + 2), LAMBDA ws :
        IF d >= 1 /\ CharAtIn(line, d + 1, {"."}) /\ ws >= 1
        THEN d + 1 + ws
        ELSE 0))

\* str.endswith
EndsWith(text, pat) == MatchAt(text, pat, Len(text) - Len(pat) + 1)

\* a faulty detect_structure that asks is_math_line before it looks for the
\* markers
detect_structure_math_first(line) ==
    IF is_math_line(line) THEN << "math_display", line >>
    ELSE IF StartsWith(line, subsection_id)
    THEN << "subsection", Strip(ReplaceFirst(line, subsection_id, <<>>)) >>
    ELSE IF StartsWith(line, section_id)
    THEN << "section", Strip(ReplaceFirst(line, section_id, <<>>)) >>
    ELSE IF HeaderMatch(line) # <<>>
    THEN With(HeaderMatch(line), LAMBDA header_match :
            IF EndsWith(header_match[1], <<".", "0">>)
            THEN << "section", Strip(header_match[2]) >>
            ELSE IF Count(header_match[1], ".") = 1
            THEN << "subsection", Strip(header_match[2]) >>
            ELSE << "subsubsection", Strip(header_match[2]) >>)
    ELSE IF EnumeratePrefix(line) > 0
    THEN << "enumerate", From(line, EnumeratePrefix(line) + 1) >>
    ELSE IF StartsWith(line, <<"-", " ">>) \/ StartsWith(line, <<"*", " ">>)
    THEN << "itemize", Strip(From(line, 3)) >>
    ELSE IF line # <<>> THEN << "paragraph", line >>
    ELSE << "empty", <<>> >>

\* lines 206-228
detect_structure(line) ==
    IF StartsWith(line, subsection_id)
    THEN << "subsection", Strip(ReplaceFirst(line, subsection_id, <<>>)) >>
    ELSE IF StartsWith(line, section_id)
    THEN << "section", Strip(ReplaceFirst(line, section_id, <<>>)) >>
    ELSE IF is_math_line(line) THEN << "math_display", line >>
    ELSE IF HeaderMatch(line) # <<>>
    THEN With(HeaderMatch(line), LAMBDA header_match :
            IF EndsWith(header_match[1], <<".", "0">>)
            THEN << "section", Strip(header_match[2]) >>
            ELSE IF Count(header_match[1], ".") = 1
            THEN << "subsection", Strip(header_match[2]) >>
            ELSE << "subsubsection", Strip(header_match[2]) >>)
    ELSE IF EnumeratePrefix(line) > 0
    THEN << "enumerate", From(line, EnumeratePrefix(line) + 1) >>
    ELSE IF StartsWith(line, <<"-", " ">>) \/ StartsWith(line, <<"*", " ">>)
    THEN << "itemize", Strip(From(line, 3)) >>
    ELSE IF line # <<>> THEN << "paragraph", line >>
    ELSE << "empty", <<>> >>

(***************************************************************************)
(* generate_table_block                                                    *)
(***************************************************************************)
\* " & ".join(cells) + r' \\'
TableRow(cells) == Join(cells, <<" & ">>) \o <<" \\\\">>

\* lines 233-238: header_row
HeaderRow(row) ==
    With(Split(row, "\t"), LAMBDA header_cols :
        TableRow([k \in 1..Len(header_cols) |->
            <<"\\textbf{">> \o process_inline_math(Strip(header_cols[k])) \o <<"}">>]))

\* lines 255-259: the two lines a data row appends to latex_block
DataRowLines(row) ==
    With(Split(row, "\t"), LAMBDA cols :
        << TableRow([k \in 1..Len(cols) |-> process_inline_math(Strip(cols[k]))]),
           <<"\\addlinespace">> >>)

RECURSIVE DataRowsFrom(_, _)
DataRowsFrom(rows, k) ==
    IF k > Len(rows) THEN <<>>
    ELSE DataRowLines(rows[k]) \o DataRowsFrom(rows, k + 1)

generate_table_block(rows) ==
    IF rows = <<>> THEN <<>>
    ELSE
    With(Len(Split(rows[1], "\t")), LAMBDA num_cols :
    With([k \in 1..num_cols |-> "X"], LAMBDA col_spec :
    With(HeaderRow(rows[1]), LAMBDA header_row :
        Join(<< <<"\\begin{xltabular}{\\textwidth}{@{}">> \o col_spec \o <<"@{}}">>,
                <<"\\caption{Auto-generated table} \\\\">>,
                <<"\\toprule">>,
                header_row,
                <<"\\midrule">>,
                <<"\\endfirsthead">>,
                <<"\\caption[]{Auto-generated table (continued)} \\\\">>,
                <<"\\toprule">>,
                header_row,
                <<"\\midrule">>,
                <<"\\endhead">>,
                <<"\\bottomrule">>,
                <<"\\endfoot">> >>
             \o DataRowsFrom(rows, 2)
             \o << <<"\\end{xltabular}">> >>,
             <<"\n">>))))

(***************************************************************************)
(* update_settings.  A settings dict is a function from the keys it holds  *)
(* to their values.                                                        *)
(***************************************************************************)
\* a faulty merge that replaces the words supplied earlier
MergeAnchorsReplace(anchors, settings_dict) ==
    IF "anchors" \in DOMAIN settings_dict /\ settings_dict["anchors"] # {}
    THEN BaseAnchors \cup settings_dict["anchors"]
    ELSE anchors

\* lines 50-52: english_anchors after the call
MergeAnchors(anchors, settings_dict) ==
    IF "anchors" \in DOMAIN settings_dict /\ settings_dict["anchors"] # {}
    THEN anchors \cup settings_dict["anchors"]
    ELSE anchors

\* settings_dict.get(key, current)
GetSetting(settings_dict, key, current) ==
    IF key \in DOMAIN settings_dict THEN settings_dict[key] ELSE current

update_settings(settings_dict) ==
    /\ english_anchors' = MergeAnchors(english_anchors, settings_dict)
    /\ section_id' = GetSetting(settings_dict, "section_id", section_id)
    /\ subsection_id' = GetSetting(settings_dict, "subsection_id", subsection_id)
    /\ include_title' = GetSetting(settings_dict, "include_title", include_title)
    /\ calls' = Append(calls, settings_dict)

(***************************************************************************)
(* transpile, in three steps: the lines before the loop, one pass of the   *)
(* loop body, the lines after the loop.                                    *)
(***************************************************************************)
UntitledDocument ==
    << "U", "n", "t", "i", "t", "l", "e", "d", " ",
       "D", "o", "c", "u", "m", "e", "n", "t" >>

\* line 265
InputLines(input) == Split(Strip(input), "\n")

\* line 268: title_text
TitleText(all_lines) == IF all_lines # <<>> THEN Head(all_lines) ELSE UntitledDocument

\* line 268: lines once the title is popped
BodyLines(all_lines) == IF all_lines # <<>> THEN Tail(all_lines) ELSE all_lines

\* line 278
TitleDirective(title_text) == <<"\\title{">> \o process_inline_math(title_text) \o <<"}">>

\* lines 270-286: latex_output when the loop starts
Preamble(title_text) ==
    << <<"\\documentclass{article}">>,
       <<"\\usepackage{amsmath, amssymb}">>,
       <<"\\usepackage[utf8]{inputenc}">>,
       <<"\\usepackage{xltabular}">>,
       <<"\\usepackage{booktabs}">>,
       <<"\\setlength{\\parskip}{1em}">>,
       TitleDirective(title_text),
       <<"\\author{}">>,
       <<"\\date{\\today}">>,
       <<"\\begin{document}">> >>
    \o (IF include_title THEN << <<"\\maketitle">> >> ELSE <<>>)

\* a faulty start that keeps table_buffer and current_list_type as the call
\* before left them
TranspileStartKeepState(input) ==
    /\ raw_input' = input
    /\ \E all_lines \in { InputLines(input) } :
          /\ lines' = BodyLines(all_lines)
          /\ latex_output' = Preamble(TitleText(all_lines))
    /\ UNCHANGED << table_buffer, current_list_type >>
    /\ line_no' = 0
    /\ pc' = "loop"

\* lines 264-289
TranspileStart(input) ==
    /\ raw_input' = input
    /\ \E all_lines \in { InputLines(input) } :
          /\ lines' = BodyLines(all_lines)
          /\ latex_output' = Preamble(TitleText(all_lines))
    /\ table_buffer' = <<>>
    /\ current_list_type' = "none"
    /\ line_no' = 0
    /\ pc' = "loop"

ListKinds == { "itemize", "enumerate" }

BeginList(kind) == <<"\\begin{", kind, "}">>
EndList(kind) == <<"\\end{", kind, "}">>

\* line 294
HasTab(line) == Contains(line, <<"\t">>)

\* a faulty flush that emits the first buffered line only
FlushHeaderOnly(buffer) ==
    IF buffer # <<>> THEN << generate_table_block(<< buffer[1] >>) >> ELSE <<>>

\* lines 297-299: what a line without a tab flushes
FlushTable(buffer) ==
    IF buffer # <<>> THEN << generate_table_block(buffer) >> ELSE <<>>

\* a faulty list state machine that opens a list of the other kind without
\* closing the open one
ListStepNoClose(current, structure, raw_content) ==
    IF structure \in ListKinds
    THEN [ out  |-> (IF current # structure THEN << BeginList(structure) >> ELSE <<>>)
                    \o << <<"    \\item ">> \o format_list_content(raw_content) >>,
           list |-> structure ]
    ELSE IF current # "none"
    THEN [ out |-> << EndList(current) >>, list |-> "none" ]
    ELSE [ out |-> <<>>, list |-> current ]

\* lines 303-315: what the list state machine appends for a line of this
\* structure, and current_list_type after it
ListStep(current, structure, raw_content) ==
    IF structure \in ListKinds
    THEN LET closes      == current # "none" /\ current # structure
             after_close == IF closes THEN "none" ELSE current
         IN  [ out  |-> (IF closes THEN << EndList(current) >> ELSE <<>>)
                        \o (IF after_close = "none"
                            THEN << BeginList(structure) >> ELSE <<>>)
                        \o << <<"    \\item ">> \o format_list_content(raw_content) >>,
               list |-> structure ]
    ELSE IF current # "none"
    THEN [ out |-> << EndList(current) >>, list |-> "none" ]
    ELSE [ out |-> <<>>, list |-> current ]

\* str.startswith on a structure name
IsHeading(structure) ==
    structure \in { "section", "subsection", "subsubsection" }

\* lines 317-323: the block of a line that is no list item
BlockOutput(structure, raw_content) ==
    IF structure = "math_display"
    THEN << <<"\\[ ">> \o transpile_math(raw_content) \o <<" \\]">> >>
    ELSE IF structure = "paragraph"
    THEN << process_inline_math(raw_content) \o <<"\n", "\n">> >>
    ELSE IF IsHeading(structure)
    THEN << <<"\\", structure, "{">> \o process_inline_math(raw_content) \o <<"}">> >>
    ELSE <<>>

\* lines 291-323: one pass of the loop body
LoopIteration ==
    /\ pc = "loop"
    /\ line_no < Len(lines)
    /\ \E line \in { Strip(lines[line_no + 1]) } :
          IF HasTab(line)
          THEN /\ table_buffer' = Append(table_buffer, line)
               /\ UNCHANGED << latex_output, current_list_type >>
          ELSE \E found \in { detect_structure(line) } :
               \E step \in { ListStep(current_list_type, found[1], found[2]) } :
                  /\ latex_output' =
                        latex_output \o FlushTable(table_buffer) \o step.out
                        \o (IF found[1] \in ListKinds THEN <<>>
                            ELSE BlockOutput(found[1], found[2]))
                  /\ table_buffer' = <<>>
                  /\ current_list_type' = step.list
    /\ line_no' = line_no + 1
    /\ UNCHANGED << lexicon, pc, raw_input, lines, result, prev_result, calls, arg, ret >>

\* a faulty end of transpile that leaves the open list open
ClosingNoListEnd(current, buffer) ==
    (IF buffer # <<>> THEN << generate_table_block(buffer) >> ELSE <<>>)
    \o << <<"\\end{document}">> >>

\* lines 325-328: what is appended once the loop is over
Closing(current, buffer) ==
    (IF current # "none" THEN << EndList(current) >> ELSE <<>>)
    \o (IF buffer # <<>> THEN << generate_table_block(buffer) >> ELSE <<>>)
    \o << <<"\\end{document}">> >>

\* lines 325-329
TranspileEnd ==
    /\ pc = "loop"
    /\ line_no = Len(lines)
    /\ \E closed \in { latex_output \o Closing(current_list_type, table_buffer) } :
          /\ latex_output' = closed
          /\ result' = Join(closed, <<"\n">>)
    /\ pc' = "done"
    /\ UNCHANGED << lexicon, raw_input, lines, line_no, table_buffer,
                    current_list_type, prev_result, calls, arg, ret >>

\* the call returns: its locals are gone, the caller holds the result
Return ==
    /\ pc = "done"
    /\ pc' = "idle"
    /\ raw_input' = <<>>
    /\ lines' = <<>>
    /\ line_no' = 0
    /\ table_buffer' = <<>>
    /\ current_list_type' = "none"
    /\ latex_output' = <<>>
    /\ result' = <<>>
    /\ prev_result' = <<>>
    /\ UNCHANGED << lexicon, calls, arg, ret >>

(***************************************************************************)
(* The callers: the inputs and settings the model draws from.              *)
(***************************************************************************)
\* the longest body, in lines
MaxLines == 3

\* how many update_settings calls the settings dialog makes
MaxGuiUpdates == 1

\* how many update_settings calls a history of calls holds
MaxCalls == 2

\* how many pieces make up a line handed to the classifiers
MaxPieces == 4

\* every sequence over S of length at most n
SeqsUpTo(S, n) == UNION { [1..k -> S] : k \in 0..n }

\* the first line of a document
TitleLine == <<"T">>

\* body lines: an itemize item, an enumerate item, two table lines of two
\* and of three cells, a paragraph of inline math, an empty line
BodyVocabulary ==
    { <<"-", " ", "x">>,
      <<"1", ".", " ", "y">>,
      <<"a", "\t", "b">>,
      <<"c", "\t", "d", "\t", "e">>,
      <<"$", "x", "+", "y", "$">>,
      <<>> }

\* the documents handed to transpile: the empty one, a blank one, and a
\* title with every body of at most MaxLines lines
RawInputs ==
    { <<>>, <<" ", "\n">> } \cup
    { Join(<<TitleLine>> \o body, <<"\n">>) : body \in SeqsUpTo(BodyVocabulary, MaxLines) }

\* what the settings dialog hands to update_settings (src/app.py, 100-104)
GuiSettings ==
    { [ include_title |-> FALSE, anchors |-> { <<"x">> }, primers |-> {} ] }

\* every settings dict over these keys and values
AnchorChoices == { {}, { <<"x", "y">> }, { <<"x", "y">>, <<"z", "z">> } }
MarkerChoices == { <<"#">>, <<"=", "=">> }

BoolChoices == { TRUE, FALSE }

\* the dicts that hold key with one of values, and the dict without it
WithOrWithout(key, values) == { <<>> } \cup { key :> v : v \in values }

AllSettings ==
    { a @@ s @@ u @@ t :
        a \in WithOrWithout("anchors", AnchorChoices),
        s \in WithOrWithout("section_id", MarkerChoices),
        u \in WithOrWithout("subsection_id", MarkerChoices),
        t \in WithOrWithout("include_title", BoolChoices) }

\* the settings a classifier is applied under: the defaults, one more anchor
\* word, other markers
ClassifySettings ==
    { [ include_title |-> TRUE ],
      [ anchors |-> { <<"x", "y">> } ],
      [ section_id |-> <<"=">>, subsection_id |-> <<"=", "=">> ] }

\* the lines handed to the classifiers: at most MaxPieces of these pieces
Pieces ==
    { <<"#">>, <<"1">>, <<".">>, <<"0">>, <<" ">>, <<"-">>, <<"=">>,
      <<"t", "o">>, <<"x", "y">> }

RECURSIVE Flatten(_)
Flatten(parts) == IF parts = <<>> THEN <<>> ELSE Head(parts) \o Flatten(Tail(parts))

ClassifyInputs == { Flatten(ps) : ps \in SeqsUpTo(Pieces, MaxPieces) }

(***************************************************************************)
(* The transpiler object and its callers.                                  *)
(***************************************************************************)
\* __init__ (lines 5-46), no call running
Init ==
    /\ section_id = <<"#", "#">>
    /\ subsection_id = <<"#", "#", "#">>
    /\ include_title = TRUE
    /\ english_anchors = BaseAnchors
    /\ pc = "idle"
    /\ raw_input = <<>>
    /\ lines = <<>>
    /\ line_no = 0
    /\ table_buffer = <<>>
    /\ current_list_type = "none"
    /\ latex_output = <<>>
    /\ result = <<>>
    /\ prev_result = <<>>
    /\ calls = <<>>
    /\ arg = <<>>
    /\ ret = <<>>

callstate ==
    << pc, raw_input, lines, line_no, table_buffer, current_list_type,
       latex_output, result, prev_result >>

\* the settings dialog is accepted (src/app.py, 155-159)
GuiUpdate ==
    /\ pc = "idle"
    /\ Len(calls) < MaxGuiUpdates
    /\ \E d \in GuiSettings : update_settings(d)
    /\ UNCHANGED << callstate, arg, ret >>

\* transpile is called
Transpile ==
    /\ pc = "idle"
    /\ \E input \in RawInputs : TranspileStart(input)
    /\ UNCHANGED << lexicon, result, prev_result, calls, arg, ret >>

\* transpile is called once more on the input of the call that just returned
TranspileAgain ==
    /\ pc = "done"
    /\ prev_result = <<>>
    /\ TranspileStart(raw_input)
    /\ prev_result' = result
    /\ UNCHANGED << lexicon, result, calls, arg, ret >>

Next ==
    \/ GuiUpdate
    \/ Transpile
    \/ LoopIteration
    \/ TranspileEnd
    \/ TranspileAgain
    \/ Return

Spec == Init /\ [][Next]_vars

\* the for loop takes its next line while there is one
NextLine ==
    /\ pc = "loop"
    /\ line_no < Len(lines)
    /\ line_no' = line_no + 1
    /\ pc' = pc

\* the statements after the loop run once no line is left
AfterLoop ==
    /\ pc = "loop"
    /\ line_no = Len(lines)
    /\ line_no' = line_no
    /\ pc' = "done"

\* a call that has started keeps running.  pc and line_no hold the position
\* of the call, and the two conditions are stated on them alone; under Spec
\* a NextLine step is a LoopIteration step and an AfterLoop step is a
\* TranspileEnd step.
FairSpec ==
    Spec /\ WF_<<pc, line_no>>(NextLine) /\ WF_<<pc, line_no>>(AfterLoop)

(***************************************************************************)
(* update_settings on its own, with the history of its arguments.          *)
(***************************************************************************)
UpdateSettings ==
    /\ pc = "idle"
    /\ Len(calls) < MaxCalls
    /\ \E d \in AllSettings : update_settings(d)
    /\ UNCHANGED << callstate, arg, ret >>

SpecSettings == Init /\ [][UpdateSettings]_vars

(***************************************************************************)
(* detect_structure and is_math_line on their own, on one line, after one  *)
(* update_settings call.                                                   *)
(***************************************************************************)
InitClassify ==
    /\ \E d \in ClassifySettings :
          /\ english_anchors = MergeAnchors(BaseAnchors, d)
          /\ section_id = GetSetting(d, "section_id", <<"#", "#">>)
          /\ subsection_id = GetSetting(d, "subsection_id", <<"#", "#", "#">>)
          /\ include_title = GetSetting(d, "include_title", TRUE)
          /\ calls = <<d>>
    /\ pc = "call"
    /\ raw_input = <<>>
    /\ lines = <<>>
    /\ line_no = 0
    /\ table_buffer = <<>>
    /\ current_list_type = "none"
    /\ latex_output = <<>>
    /\ result = <<>>
    /\ prev_result = <<>>
    /\ arg \in ClassifyInputs
    /\ ret = <<>>

DetectStructure ==
    /\ pc = "call"
    /\ ret' = detect_structure(arg)
    /\ pc' = "detect_structure"
    /\ UNCHANGED << lexicon, raw_input, lines, line_no, table_buffer,
                    current_list_type, latex_output, result, prev_result, calls, arg >>

IsMathLine ==
    /\ pc = "call"
    /\ ret' = is_math_line(arg)
    /\ pc' = "is_math_line"
    /\ UNCHANGED << lexicon, raw_input, lines, line_no, table_buffer,
                    current_list_type, latex_output, result, prev_result, calls, arg >>

NextClassify == DetectStructure \/ IsMathLine

SpecClassify == InitClassify /\ [][NextClassify]_vars


(***************************************************************************)
(* process_inline_math on its own, on one line, statement by statement.    *)
(* ret holds the locals of the running call, result what it returned.      *)
(***************************************************************************)
MaxTokens == 3

\* raw tokens: an empty one (what two adjacent spaces leave between them),
\* two words, a word in brackets, and three formulas that end in brackets
SegmentTokens ==
    { <<>>,
      <<"t", "h", "e">>,
      <<"(", "s", "o", ")">>,
      <<"a">>,
      <<"f", "(", "x", ")", ")">>,
      <<"v", "[", "1", "]", "]">>,
      <<"f", "(", "v", "[", "1", "]", ")">> }

\* lines of at most MaxTokens raw tokens with one space between neighbours
SegmentInputs ==
    { Join(ts, <<" ">>) : ts \in SeqsUpTo(SegmentTokens, MaxTokens) \ { <<>> } }

InitSegment ==
    /\ section_id = <<"#", "#">>
    /\ subsection_id = <<"#", "#", "#">>
    /\ include_title = TRUE
    /\ english_anchors = BaseAnchors
    /\ pc = "call"
    /\ raw_input = <<>>
    /\ lines = <<>>
    /\ line_no = 0
    /\ table_buffer = <<>>
    /\ current_list_type = "none"
    /\ latex_output = <<>>
    /\ result = <<>>
    /\ prev_result = <<>>
    /\ calls = <<>>
    /\ arg \in SegmentInputs
    /\ ret = <<>>

segmentrest ==
    << lexicon, raw_input, lines, line_no, table_buffer, current_list_type,
       latex_output, prev_result, calls, arg >>

\* a start that drops the empty raw tokens, as str.split() does
SegmentStartCollapsing ==
    /\ pc = "call"
    /\ ret' = [ raw_tokens    |-> SelectSeq(Split(arg, " "), LAMBDA t : t # <<>>),
                i             |-> 0,
                prefix        |-> <<>>,
                core          |-> <<>>,
                suffix        |-> <<>>,
                is_math       |-> FALSE,
                output_tokens |-> <<>> ]
    /\ pc' = "for"
    /\ UNCHANGED << segmentrest, result >>

\* lines 130-131
SegmentStart ==
    /\ pc = "call"
    /\ ret' = [ raw_tokens    |-> Split(arg, " "),
                i             |-> 0,
                prefix        |-> <<>>,
                core          |-> <<>>,
                suffix        |-> <<>>,
                is_math       |-> FALSE,
                output_tokens |-> <<>> ]
    /\ pc' = "for"
    /\ UNCHANGED << segmentrest, result >>

\* lines 133-141: the loop takes the next raw token (i counts the tokens
\* taken) and strips its punctuation
NextToken ==
    /\ pc = "for"
    /\ ret.i < Len(ret.raw_tokens)
    /\ \E parts \in { StripPunctuation(ret.raw_tokens[ret.i + 1]) } :
          ret' = [ ret EXCEPT !.i = @ + 1,
                              !.prefix = parts[1],
                              !.core = parts[2],
                              !.suffix = parts[3] ]
    /\ pc' = "while_parens"
    /\ UNCHANGED << segmentrest, result >>

\* lines 144-146: the test of the first while loop and, when it holds, one
\* run of its body
WhileParens ==
    /\ pc = "while_parens"
    /\ IF Count(ret.core, "(") > Count(ret.core, ")") /\ StartsWith(ret.suffix, <<")">>)
       THEN /\ ret' = [ ret EXCEPT !.core = Append(@, ")"), !.suffix = Tail(@) ]
            /\ pc' = pc
       ELSE /\ ret' = ret
            /\ pc' = "while_brackets"
    /\ UNCHANGED << segmentrest, result >>

\* lines 147-149: the same for the second while loop
WhileBrackets ==
    /\ pc = "while_brackets"
    /\ IF Count(ret.core, "[") > Count(ret.core, "]") /\ StartsWith(ret.suffix, <<"]">>)
       THEN /\ ret' = [ ret EXCEPT !.core = Append(@, "]"), !.suffix = Tail(@) ]
            /\ pc' = pc
       ELSE /\ ret' = ret
            /\ pc' = "decide"
    /\ UNCHANGED << segmentrest, result >>

\* lines 152-169
Decide ==
    /\ pc = "decide"
    /\ \E is_math \in { TokenIsMath(ret.raw_tokens, ret.i, ret.core) } :
          ret' = [ ret EXCEPT
                     !.is_math = is_math,
                     !.output_tokens = Append(@,
                        IF is_math
                        THEN sanitize_text(ret.prefix) \o <<"$">>
                                \o transpile_math(ret.core) \o <<"$">>
                                \o sanitize_text(ret.suffix)
                        ELSE sanitize_text(ret.raw_tokens[ret.i])) ]
    /\ pc' = "for"
    /\ UNCHANGED << segmentrest, result >>

\* line 171
SegmentEnd ==
    /\ pc = "for"
    /\ ret.i = Len(ret.raw_tokens)
    /\ result' = Join(ret.output_tokens, <<" ">>)
    /\ pc' = "done"
    /\ UNCHANGED << segmentrest, ret >>

NextSegment ==
    \/ SegmentStart
    \/ NextToken
    \/ WhileParens
    \/ WhileBrackets
    \/ Decide
    \/ SegmentEnd

SpecSegment == InitSegment /\ [][NextSegment]_vars

\* a call that has started runs its next statement
FairSpecSegment == SpecSegment /\ WF_vars(NextSegment)
(***************************************************************************)
(* What the properties below read off the state.                           *)
(***************************************************************************)
\* an item line of latex_output
IsItem(entry) == entry # <<>> /\ entry[1] = "    \\item "

\* a table block of latex_output
IsTableBlock(entry) == entry # <<>> /\ entry[1] = "\\begin{xltabular}{\\textwidth}{@{}"

TableBlocks(out) == SelectSeq(out, IsTableBlock)

\* the list that the first n entries of out leave open: "none", a list kind,
\* or "bad" when a \begin comes while a list is open, an \end comes for a
\* list that is not the open one, or an item comes while no list is open
RECURSIVE OpenList(_, _)
OpenList(out, n) ==
    IF n = 0 THEN "none"
    ELSE With(OpenList(out, n - 1), LAMBDA open :
            IF open = "bad" THEN "bad"
            ELSE IF \E k \in ListKinds : out[n] = BeginList(k)
            THEN (IF open = "none" THEN out[n][2] ELSE "bad")
            ELSE IF \E k \in ListKinds : out[n] = EndList(k)
            THEN (IF open = out[n][2] THEN "none" ELSE "bad")
            ELSE IF IsItem(out[n])
            THEN (IF open = "none" THEN "bad" ELSE open)
            ELSE open)

\* body line i, trimmed, contains a tab
TabLine(i) == HasTab(Strip(lines[i]))

\* the first lines of the maximal runs of tab lines among body lines 1..n
RunStarts(n) == { i \in 1..n : TabLine(i) /\ (i = 1 \/ ~TabLine(i - 1)) }

\* the last line, among body lines 1..n, of the run that starts at line i
RunEnd(i, n) ==
    CHOOSE j \in i..n : (\A k \in i..j : TabLine(k)) /\ (j = n \/ ~TabLine(j + 1))

\* the lines of that run, trimmed
Run(i, n) == [k \in 1..(RunEnd(i, n) - i + 1) |-> Strip(lines[i + k - 1])]

\* a set of numbers in increasing order
Ordered(S) ==
    [k \in 1..Cardinality(S) |->
        CHOOSE i \in S : Cardinality({ j \in S : j < i }) = k - 1]

\* block is the table of run: thirteen lines of head with the run's first
\* line as header row, then for every other line of the run its data row and
\* one spacer, then the closing line
BlockOfRun(block, run) ==
    LET rows == Split(block, "\n")
    IN  /\ Len(rows) = 14 + 2 * (Len(run) - 1)
        /\ rows[4] = HeaderRow(run[1])
        /\ \A k \in 2..Len(run) :
              /\ rows[2 * k + 10] = DataRowLines(run[k])[1]
              /\ rows[2 * k + 11] = <<"\\addlinespace">>
        /\ Cardinality({ r \in 1..Len(rows) : rows[r] = <<"\\addlinespace">> })
              = Len(run) - 1
        /\ rows[Len(rows)] = <<"\\end{xltabular}">>

\* the cells of a table row
Cells(row) == Count(row, " & ") + 1

\* the loop has just read a body line that is, trimmed, this line
JustRead(line) == pc = "loop" /\ line_no >= 1 /\ Strip(lines[line_no]) = line

(***************************************************************************)
(* C1                                                                      *)
(***************************************************************************)
\* an item of one kind arrives while a list of the other kind is open: the
\* output then ends with the \end of the open kind, the \begin of the new
\* kind and the item
C1_KindSwitch ==
    (/\ pc = "loop" /\ pc' = "loop"
     /\ current_list_type \in ListKinds
     /\ current_list_type' \in ListKinds
     /\ current_list_type' # current_list_type)
    => LET n == Len(latex_output')
       IN  /\ n >= Len(latex_output) + 3
           /\ latex_output'[n - 2] = EndList(current_list_type)
           /\ latex_output'[n - 1] = BeginList(current_list_type')
           /\ IsItem(latex_output'[n])

\* C1: at every point of the pass over the lines the output has at most one
\* list environment open and none nested, the open one is the one
\* current_list_type names, and when an item of kind K arrives while a list
\* of the other kind is open the \end of the open kind is emitted before the
\* \begin of K.
C1_OneListOpen ==
    /\ [](OpenList(latex_output, Len(latex_output))
            = (IF pc = "loop" THEN current_list_type ELSE "none"))
    /\ [][C1_KindSwitch]_vars

\* an enumerate item has arrived while an itemize list was open
C1_KindSwitched ==
    /\ pc = "loop"
    /\ current_list_type = "enumerate"
    /\ \E i \in 1..(Len(latex_output) - 2) :
          /\ latex_output[i] = EndList("itemize")
          /\ latex_output[i + 1] = BeginList("enumerate")
          /\ IsItem(latex_output[i + 2])

(***************************************************************************)
(* C2                                                                      *)
(***************************************************************************)
\* what the output is when transpile is about to return
C2_Closed ==
    pc = "done" =>
        LET n       == Len(latex_output)
            flushed == IF table_buffer # <<>> THEN 1 ELSE 0
        IN  /\ OpenList(latex_output, n) = "none"
            /\ latex_output[n] = <<"\\end{document}">>
            /\ \A i \in 1..(n - 1) : latex_output[i] # <<"\\end{document}">>
            /\ table_buffer # <<>> =>
                  latex_output[n - 1] = generate_table_block(table_buffer)
            /\ current_list_type # "none" =>
                  latex_output[n - 1 - flushed] = EndList(current_list_type)
            /\ Len(TableBlocks(latex_output)) = Cardinality(RunStarts(Len(lines)))

\* a call that has not returned can take its next step: the loop its next
\* line while there is one, the statements after the loop once there is none
C2_NeverStuck ==
    pc = "loop" =>
        /\ line_no <= Len(lines)
        /\ line_no < Len(lines) => ENABLED LoopIteration
        /\ line_no = Len(lines) => ENABLED TranspileEnd

C3_FlushedRuns ==
    IF pc = "done" THEN RunStarts(line_no)
    ELSE { i \in RunStarts(line_no) : RunEnd(i, line_no) < line_no }

\* there is one block per flushed run; while the loop runs table_buffer is
\* the run not yet flushed; at the return the blocks are those of the runs,
\* in order
C3_Blocks ==
    pc \in { "loop", "done" } =>
        LET starts == Ordered(C3_FlushedRuns)
            blocks == TableBlocks(latex_output)
        IN  /\ Len(blocks) = Len(starts)
            /\ pc = "loop" =>
                  table_buffer =
                     IF line_no > 0 /\ TabLine(line_no)
                     THEN Run(CHOOSE i \in RunStarts(line_no) :
                                 RunEnd(i, line_no) = line_no, line_no)
                     ELSE <<>>
            /\ pc = "done" =>
                  \A k \in 1..Len(starts) :
                      BlockOfRun(blocks[k], Run(starts[k], line_no))

\* a step of the call only appends to latex_output, so a block once emitted
\* stays as it is, and a flush inside the loop leaves table_buffer empty
C3_FlushEmpties ==
    (pc = "loop" /\ pc' \in { "loop", "done" }) =>
        /\ Len(latex_output') >= Len(latex_output)
        /\ \A i \in 1..Len(latex_output) : latex_output'[i] = latex_output[i]
        /\ (pc' = "loop"
              /\ Len(TableBlocks(latex_output')) > Len(TableBlocks(latex_output)))
           => table_buffer' = <<>>

Supplied(key) == { i \in 1..Len(calls) : key \in DOMAIN calls[i] }

\* the value of the most recent call that supplied key
LastSupplied(key, default) ==
    IF Supplied(key) = {} THEN default
    ELSE calls[CHOOSE i \in Supplied(key) : \A j \in Supplied(key) : j <= i][key]

C4_Merged ==
    /\ english_anchors =
          BaseAnchors \cup UNION { calls[i]["anchors"] : i \in Supplied("anchors") }
    /\ section_id = LastSupplied("section_id", <<"#", "#">>)
    /\ subsection_id = LastSupplied("subsection_id", <<"#", "#", "#">>)
    /\ include_title = LastSupplied("include_title", TRUE)

\* one update_settings call: no word is lost, and a key the call omits
\* keeps its field
C4_Call ==
    Len(calls') = Len(calls) + 1 =>
        LET d == calls'[Len(calls')]
        IN  /\ english_anchors \subseteq english_anchors'
            /\ "anchors" \notin DOMAIN d => english_anchors' = english_anchors
            /\ "section_id" \notin DOMAIN d => section_id' = section_id
            /\ "subsection_id" \notin DOMAIN d => subsection_id' = subsection_id
            /\ "include_title" \notin DOMAIN d => include_title' = include_title

\* C4: after any sequence of update_settings calls english_anchors is the
\* seed set united with every anchor set supplied so far (an empty one adds
\* nothing) and never loses a word, each of section_id, subsection_id and
\* include_title is the value of the most recent call that supplied it or
\* its default when no call did, and a call that omits a key leaves that
\* field unchanged.
C4_SettingsMerge ==
    /\ []C4_Merged
    /\ [][C4_Call]_vars

\* two calls, both with anchor words, the first with a section marker and
\* the second without one
C4_TwoCalls ==
    /\ Len(calls) = 2
    /\ "section_id" \in DOMAIN calls[1]
    /\ "section_id" \notin DOMAIN calls[2]
    /\ section_id = calls[1]["section_id"]
    /\ section_id # <<"#", "#">>
    /\ "anchors" \in DOMAIN calls[1] /\ "anchors" \in DOMAIN calls[2]
    /\ calls[1]["anchors"] # {}
    /\ ~(calls[1]["anchors"] \subseteq calls[2]["anchors"])
    /\ calls[1]["anchors"] \subseteq english_anchors

(***************************************************************************)
(* C5                                                                      *)
(***************************************************************************)
C5_SameResult ==
    /\ (pc = "done" /\ prev_result # <<>>) => result = prev_result
    /\ (pc = "loop" /\ line_no = 0) =>
          (table_buffer = <<>> /\ current_list_type = "none")

\* C5: no step of transpile changes section_id, subsection_id, include_title
\* or english_anchors; a call starts with an empty table buffer and no list
\* open whatever the call before it left in them; and a second call on the
\* same input, with no update_settings call in between, returns the result
\* of the first.
C5_Deterministic ==
    /\ []C5_SameResult
    /\ [][(pc # "idle" \/ pc' # "idle") => UNCHANGED lexicon]_vars

\* the second of two calls on one input returns, under settings the dialog
\* changed, and both calls left a list kind and table lines in their locals
C5_SecondCallDone ==
    /\ pc = "done"
    /\ prev_result # <<>>
    /\ result = prev_result
    /\ calls # <<>>
    /\ current_list_type # "none"
    /\ table_buffer # <<>>

(***************************************************************************)
(* C6                                                                      *)
(***************************************************************************)
\* C6: transpile on an empty document emits the title directive with content
\* "Untitled Document" and no body block: its output is the preamble with
\* that title and the closing directive.
C6_EmptyIsUntitled ==
    (pc = "done" /\ Strip(raw_input) = <<>>) =>
        latex_output = Preamble(UntitledDocument) \o << <<"\\end{document}">> >>

\* what transpile emits for the empty document: a title directive with
\* empty content
C6_EmptyTitle ==
    /\ pc = "done"
    /\ raw_input = <<>>
    /\ lines = <<>>
    /\ latex_output[7] = <<"\\title{", "}">>

(***************************************************************************)
(* C7                                                                      *)
(***************************************************************************)
\* the rules of detect_structure in their order: whether the line matches
RuleMatches(line) ==
    << StartsWith(line, subsection_id),
       StartsWith(line, section_id),
       is_math_line(line),
       HeaderMatch(line) # <<>>,
       EnumeratePrefix(line) > 0,
       StartsWith(line, <<"-", " ">>) \/ StartsWith(line, <<"*", " ">>),
       line # <<>>,
       line = <<>> >>

\* the kinds each rule assigns
RuleKinds ==
    << { "subsection" },
       { "section" },
       { "math_display" },
       { "section", "subsection", "subsubsection" },
       { "enumerate" },
       { "itemize" },
       { "paragraph" },
       { "empty" } >>

\* C7: detect_structure gives every line a kind, the kind of the first rule
\* the line matches in the order subsection marker, section marker, math
\* line, dotted numbering, 'N. ' prefix, '- ' or '* ' prefix, non-empty,
\* empty; so a line that starts with section_id and not with subsection_id
\* is a section whatever english_anchors holds and whatever math symbols
\* the line contains.
C7_FirstMatchingRule ==
    pc = "detect_structure" =>
        LET matches == RuleMatches(arg)
            rules   == { r \in 1..Len(RuleKinds) : matches[r] }
            first   == CHOOSE r \in rules : \A q \in rules : r <= q
        IN  /\ rules # {}
            /\ ret[1] \in RuleKinds[first]
            /\ (StartsWith(arg, section_id) /\ ~StartsWith(arg, subsection_id))
                  => ret[1] = "section"

\* a line that starts with the section marker and that is_math_line takes
\* for a math line is classified section
C7_SectionWithMath ==
    /\ pc = "detect_structure"
    /\ StartsWith(arg, section_id)
    /\ ~StartsWith(arg, subsection_id)
    /\ is_math_line(arg)
    /\ ret[1] = "section"

(***************************************************************************)
(* C8                                                                      *)
(***************************************************************************)
\* the rows of a table block, the columns its column spec declares, and
\* its data rows
BlockRows(block) == Split(block, "\n")
Columns(rows) == Count(rows[1], "X")
DataRows(rows) ==
    { r \in 14..(Len(rows) - 1) : rows[r] # <<"\\addlinespace">> }

\* C8: in every table block the column spec has one column per header cell
\* and every data row has as many cells as the header, whether the data
\* line has fewer, equally many or more fields than the header.
C8_RowsMatchHeader ==
    pc = "done" =>
        \A b \in 1..Len(TableBlocks(latex_output)) :
            LET rows == BlockRows(TableBlocks(latex_output)[b])
            IN  /\ Cells(rows[4]) = Columns(rows)
                /\ \A r \in DataRows(rows) : Cells(rows[r]) = Columns(rows)

\* a table block with a data row of more cells than the column spec has
\* columns
C8_RaggedRow ==
    /\ pc = "done"
    /\ \E b \in 1..Len(TableBlocks(latex_output)) :
          LET rows == BlockRows(TableBlocks(latex_output)[b])
          IN  \E r \in DataRows(rows) : Cells(rows[r]) > Columns(rows)

(***************************************************************************)
(* C9                                                                      *)
(***************************************************************************)
\* the words re.findall gives for the lowercased line
LineWords(line) == FindWordsFrom(Lower(line), 1)

\* how many of them are anchor words, counted with repetition
AnchorOccurrences(line) ==
    Cardinality({ i \in 1..Len(LineWords(line)) : LineWords(line)[i] \in english_anchors })

\* how many distinct anchor words are among them
DistinctAnchors(line) ==
    Cardinality({ LineWords(line)[i] : i \in 1..Len(LineWords(line)) } \cap english_anchors)

\* the line contains a math_map key or one of the relation signs
HasIndicator(line) == \E c \in StrongIndicators : Contains(line, c)

\* C9 (as the program has it): is_math_line counts the words of at least
\* two letters of the lowercased line that are anchor words, each occurrence
\* counted; it returns false when that count is 2 or more, whatever symbols
\* the line contains, and otherwise true exactly when the line contains a
\* math_map key or one of = <= >= /= ~~ -> < >.  A line that repeats one
\* anchor word is therefore not a math line.
C9_CountsOccurrences ==
    pc = "is_math_line" =>
        ret = (AnchorOccurrences(arg) < 2 /\ HasIndicator(arg))

\* C9 (as stated): the count is of the distinct anchor words, so a line
\* that repeats a single anchor word and contains such a symbol is a math
\* line.
C9_CountsDistinct ==
    pc = "is_math_line" =>
        ret = (DistinctAnchors(arg) < 2 /\ HasIndicator(arg))

\* a line with one anchor word twice and a relation sign is no math line
C9_RepeatedAnchor ==
    /\ pc = "is_math_line"
    /\ DistinctAnchors(arg) = 1
    /\ AnchorOccurrences(arg) = 2
    /\ HasIndicator(arg)
    /\ ret = FALSE

(***************************************************************************)
(* C10                                                                     *)
(***************************************************************************)
DollarLine == << "$", "x", "+", "y", "$" >>

\* $\$x+y\$$ and the two line ends of a paragraph
DollarParagraph ==
    << "$", "\\", "$", "x", "+", "y", "\\", "$", "$", "\n", "\n" >>

\* C10 (as the program has it): a body line "$x+y$" is classified paragraph
\* by detect_structure, and transpile emits it as a paragraph whose one
\* token is inline math with both '$' of the line escaped: $\$x+y\$$.
C10_DollarLineIsParagraph ==
    JustRead(DollarLine) =>
        /\ detect_structure(DollarLine)[1] = "paragraph"
        /\ latex_output[Len(latex_output)] = DollarParagraph

\* C10 (as stated): a body line "$x+y$" is classified math_display and is
\* emitted as a display-math block \[ ... \] with no '$' left in it.
C10_DollarLineIsDisplayMath ==
    JustRead(DollarLine) =>
        LET block == latex_output[Len(latex_output)]
        IN  /\ detect_structure(DollarLine)[1] = "math_display"
            /\ block[1] = "\\[ "
            /\ block[Len(block)] = " \\]"
            /\ \A i \in 1..Len(block) : block[i] # "$"

\* the loop has read a line "$x+y$" and emitted the paragraph
C10_DollarLineRead ==
    /\ JustRead(DollarLine)
    /\ latex_output[Len(latex_output)] = DollarParagraph

(***************************************************************************)
(* C11                                                                     *)
(***************************************************************************)
\* the i-th raw token of the line is not judged math
PlainToken(raw_tokens, i) ==
    LET parts == StripPunctuation(raw_tokens[i])
        fixed == BalanceCheck(parts[2], parts[3])
    IN  ~TokenIsMath(raw_tokens, i, fixed[1])

\* process_inline_math has returned for a line without a math token
PlainLineDone ==
    /\ pc = "done"
    /\ \A i \in 1..Len(Split(arg, " ")) : PlainToken(Split(arg, " "), i)

\* two adjacent spaces
AdjacentSpaces(text) == Contains(text, <<" ", " ">>)

\* C11 (as the code has it): process_inline_math keeps every space of a line
\* of non-math tokens.  The raw token between two adjacent spaces is empty
\* and is emitted as an empty token, so the output has a token per raw token
\* (the sanitized raw token), as many spaces as the line, and two adjacent
\* spaces exactly when the line has them.
C11_KeepsSpaces ==
    PlainLineDone =>
        LET raw == Split(arg, " ")
            out == Split(result, " ")
        IN  /\ Len(out) = Len(raw)
            /\ \A i \in 1..Len(raw) : out[i] = sanitize_text(raw[i])
            /\ Count(result, " ") = Count(arg, " ")
            /\ AdjacentSpaces(result) <=> AdjacentSpaces(arg)

\* C11 (as stated): for a line of non-math tokens separated by runs of
\* spaces, the output of process_inline_math never contains two adjacent
\* spaces.
C11_CollapsesSpaces == PlainLineDone => ~AdjacentSpaces(result)

\* process_inline_math has returned for "the  (so)", two non-math tokens with
\* two spaces between them
C11_TwoSpacesRead ==
    /\ PlainLineDone
    /\ arg = <<"t", "h", "e", " ", " ", "(", "s", "o", ")">>
    /\ Len(ret.output_tokens) = 3

(***************************************************************************)
(* C12                                                                     *)
(***************************************************************************)
\* core has more of open than of close while suffix starts with close
Unrepaired(open, close) ==
    /\ Count(ret.core, open) > Count(ret.core, close)
    /\ StartsWith(ret.suffix, <<close>>)

\* what the claim says of a token once both while loops are over
C12_Repaired ==
    pc = "decide" =>
        /\ ~Unrepaired("(", ")")
        /\ ~Unrepaired("[", "]")
        /\ ret.prefix \o ret.core \o ret.suffix = ret.raw_tokens[ret.i]

\* C12 (as stated): for every token the bracket-balance repair terminates,
\* and when it has finished it is not the case that core has more '(' than
\* ')' while suffix starts with ')', and not the case that core has more '['
\* than ']' while suffix starts with ']', and prefix + core + suffix still
\* equals the token.
C12_RepairCompletes ==
    /\ []C12_Repaired
    /\ (pc = "while_parens") ~> (pc = "decide")

\* the repair of the token f(v[1]) is over: the second loop moved the ']'
\* into core, which uncovered the ')' that the first loop had not reached
C12_ParenUncovered ==
    /\ pc = "decide"
    /\ ret.raw_tokens[ret.i] = <<"f", "(", "v", "[", "1", "]", ")">>
    /\ ret.core = <<"f", "(", "v", "[", "1", "]">>
    /\ ret.suffix = <<")">>

(***************************************************************************)
(* C13                                                                     *)
(***************************************************************************)
\* the n-th entry of the output is a table block and the entries before it
\* leave a list open
TableInList(n) ==
    /\ IsTableBlock(latex_output[n])
    /\ OpenList(latex_output, n - 1) \in ListKinds

\* C13 (as stated): in transpile a table block is emitted only while no list
\* is open: whether the run of tab lines is ended by a further line or by
\* the end of the input, the \end of the open list comes before the table
\* block, so no table block stands between the \begin of a list and its
\* \end.
C13_TableOutsideLists ==
    pc \in { "loop", "done" } =>
        \A n \in 1..Len(latex_output) : ~TableInList(n)

\* a line without a tab has just ended a run of tab lines that followed an
\* item: the table block was emitted while the list of the item was open
C13_TableInsideList ==
    /\ pc = "loop"
    /\ line_no >= 3
    /\ IsItem(latex_output[Len(latex_output) - 3])
    /\ TableInList(Len(latex_output) - 2)
    /\ latex_output[Len(latex_output) - 1] = EndList("itemize")
    /\ JustRead(DollarLine)

====
